---- MODULE Spec2Model ----
(***************************************************************************)
(* SurveyPro: the relational store (shared/schema.ts), the storage layer   *)
(* (server/storage.ts, DatabaseStorage), the HTTP routes                   *)
(* (server/routes.ts, registerRoutes) and the analytics page's             *)
(* getQuestionAnalytics, as a state machine.                               *)
(*                                                                         *)
(* Each route handler is one action: it reads the request, performs every  *)
(* storage call of the handler and leaves the HTTP response in res. The    *)
(* server takes the next request once that response has been sent.         *)
(***************************************************************************)
EXTENDS Integers, Sequences, FiniteSets, TLC

\* ------------------------------------------------------------------ bounds

\* Longest questions array of a POST /api/surveys body.
MaxQuestions == 2
\* Longest answers array of a POST /api/public/surveys/:shareToken/responses body.
MaxAnswers == 2
\* Most rows the four tables hold together.
MaxRows == 4

\* ------------------------------------------------------------ value spaces

\* Markers for what a JSON body may hold in place of a string.
Absent == "<absent>"        \* the key is not in the body (undefined)
Null == "<null>"            \* JSON null
BadType == "<not-a-string>" \* a value of another JSON type (number, object)

Users == {"u1", "u2"}
\* The values gen_random_uuid() gives the rows of each table.
SurveyIdPool == <<"s1", "s2">>
TokenPool == <<"t1", "t2">>
QuestionIdPool == <<"q1", "q2">>
ResponseIdPool == <<"r1", "r2">>
AnswerIdPool == <<"a1", "a2">>

Statuses == {"draft", "active", "closed"}
RespondentIds == {"anon1"}
Values == {"A"}

NoRes == [route |-> "none"]
\* useQuery's data before the query has loaded (undefined).
NoData == [loaded |-> FALSE]
NoCall == [called |-> FALSE]
\* The share tokens of the past are not followed: which values
\* gen_random_uuid() gave to surveys no longer stored is forgotten.
NotFollowed == [followed |-> FALSE, tokens |-> {}]
\* A handler slot of the server that runs no request.
Idle == [at |-> "idle"]
\* The public page as it opens: useState({}) and useState(false), no request
\* sent and no toast shown.
NoForm == [survey |-> NoData, responses |-> <<>>, isSubmitted |-> FALSE,
           isPending |-> FALSE, sent |-> <<>>, toast |-> Null]

VARIABLES
    surveys,    \* rows of table surveys
    questions,  \* rows of table questions
    responses,  \* rows of table responses
    answers,    \* rows of table answers
    res,        \* the request being answered and its response; NoRes when idle
    now,        \* the clock that new Date() and defaultNow() read
    issued,     \* the share tokens given to surveys so far, where followed
    handlers,   \* the submissions being handled step by step, one per slot
    responseData, \* analytics page: the data of its /responses query
    pageSurvey,   \* analytics page: survey, the data of its /api/surveys/:id query
    analytics,    \* analytics page: the last getQuestionAnalytics call
    download,     \* analytics page: the CSV the last exportData call offered
    form          \* public page: its responses and isSubmitted state, the
                  \* requests it sent and its last toast

vars ==
    <<surveys, questions, responses, answers, res, now, issued, handlers,
      responseData, pageSurvey, analytics, download, form>>
store == <<surveys, questions, responses, answers>>
page == <<responseData, pageSurvey, analytics, download, form>>

\* The rows in the store; a request that could take it past the bound on them
\* is not issued.
RowCount ==
    Cardinality(surveys) + Cardinality(questions) + Cardinality(responses)
        + Cardinality(answers)

\* The slots in which the server handles submissions step by step.
Slots == 1..2

\* ------------------------------------------------------------ seq helpers

Range(f) == {f[i] : i \in DOMAIN f}

SeqsUpTo(S, n) == UNION {[1..k -> S] : k \in 0..n}

\* The injective sequences over S of length n.
InjSeqs(S, n) == {f \in [1..n -> S] : \A i, j \in 1..n : f[i] = f[j] => i = j}

SurveyIds == Range(SurveyIdPool)
Tokens == Range(TokenPool)
QuestionIds == Range(QuestionIdPool)
ResponseIds == Range(ResponseIdPool)
AnswerIds == Range(AnswerIdPool)

\* gen_random_uuid() for the n rows one request inserts into a table whose
\* column holds the values of used: n distinct values, none of them in used.
\* Which unused values they are decides nothing, so the first n unused values
\* of the pool stand for them; there is none when the pool is exhausted.
gen_random_uuid(pool, used, n) ==
    LET free == SelectSeq(pool, LAMBDA v : v \notin used) IN
    IF Len(free) < n THEN {} ELSE {SubSeq(free, 1, n)}

\* ------------------------------------------------------- storage (reads)

\* A select returns the matching rows; the caller's "const [row] = ..." takes
\* the first, which is undefined when the set is empty. id and share_token are
\* unique, so the set has at most one row.

\* storage.getSurvey: SELECT FROM surveys WHERE id = id.
getSurvey(S, id) == {s \in S : s.id = id}

\* storage.getSurveyByShareToken: SELECT FROM surveys WHERE share_token = shareToken.
getSurveyByShareToken(S, shareToken) == {s \in S : s.shareToken = shareToken}

\* A select without ORDER BY: the question rows of R in any order.
OrderByOrder_Unsorted(R) == InjSeqs(R, Cardinality(R))

\* ORDER BY "order": the sequences that list exactly the question rows of R,
\* sorted by their order column.
OrderByOrder(R) ==
    {f \in InjSeqs(R, Cardinality(R)) :
        \A i, j \in 1..Cardinality(R) : i < j => f[i].order <= f[j].order}

\* A result set without ORDER BY: the rows of R in any order.
AnyOrder(R) == InjSeqs(R, Cardinality(R))

\* getQuestionsBySurvey without its .orderBy(questions.order).
getQuestionsBySurvey_Unordered(Q, surveyId) ==
    AnyOrder({q \in Q : q.surveyId = surveyId})

\* storage.getQuestionsBySurvey: WHERE survey_id = surveyId ORDER BY "order".
\* Rows with equal order may come in either order.
getQuestionsBySurvey(Q, surveyId) ==
    OrderByOrder({q \in Q : q.surveyId = surveyId})

\* storage.getResponsesBySurvey: WHERE survey_id = surveyId (ORDER BY created_at
\* DESC; created_at is not part of the model, so any order).
getResponsesBySurvey(R, surveyId) ==
    AnyOrder({r \in R : r.surveyId = surveyId})

\* storage.getAnswersBySurvey: answers INNER JOIN responses ON response_id,
\* WHERE responses.survey_id = surveyId, no ORDER BY.
getAnswersBySurvey(A, R, surveyId) ==
    AnyOrder({a \in A : \E r \in R : r.id = a.responseId /\ r.surveyId = surveyId})

\* getSurveyStats with avgCompletionRate computed from the store: the percent
\* of the responses to the user's surveys that carry an answer.
getSurveyStats_Computed(S, R, userId) ==
    LET own == {r \in R : \E s \in S : s.id = r.surveyId /\ s.createdBy = userId}
    IN [totalSurveys |-> Cardinality({s \in S : s.createdBy = userId}),
        totalResponses |-> Cardinality(own),
        activeSurveys |-> Cardinality({s \in S : s.status = "active"}),
        avgCompletionRate |-> ToString(Cardinality(own))]

\* storage.getSurveyStats. Each count is SELECT count(*) with the WHERE clause
\* of its query. The activeSurveys query calls .where() twice; each call sets
\* the query's WHERE clause, so the query runs with the clause of the last
\* call, status = 'active', alone. avgCompletionRate is the literal 78.5.
getSurveyStats(S, R, userId) ==
    [totalSurveys |-> Cardinality({s \in S : s.createdBy = userId}),
     totalResponses |->
         Cardinality({r \in R : \E s \in S : /\ s.id = r.surveyId
                                              /\ s.createdBy = userId}),
     activeSurveys |-> Cardinality({s \in S : s.status = "active"}),
     avgCompletionRate |-> "78.5"]

\* ------------------------------------------------------ storage (writes)

\* ON DELETE CASCADE of schema.ts: questions and responses go with their
\* survey, answers with their response or their question.
CascadeQuestions(Q, S) == {q \in Q : \E s \in S : s.id = q.surveyId}

\* responses.survey_id declared without onDelete: "cascade".
CascadeResponses_None(R, S) == R

CascadeResponses(R, S) == {r \in R : \E s \in S : s.id = r.surveyId}
CascadeAnswers(A, R, Q) ==
    {a \in A : /\ \E r \in R : r.id = a.responseId
               /\ \E q \in Q : q.id = a.questionId}

\* storage.deleteSurvey: DELETE FROM surveys WHERE id = id.
deleteSurvey(S, id) == {s \in S : s.id # id}

\* An object gives a value for key: the key is there and is not undefined.
Given(obj, key) == key \in DOMAIN obj /\ obj[key] # Absent

\* UpdatedSurvey without the updatedAt: new Date() of the .set(): updated_at
\* keeps the value the row had.
UpdatedSurvey_KeepDate(s, updates, date) ==
    [f \in DOMAIN s |-> IF Given(updates, f) THEN updates[f] ELSE s[f]]

\* .set({ ...updates, updatedAt: new Date() }) on row s: the columns updates
\* gives take its values, updated_at takes date, the others keep theirs.
UpdatedSurvey(s, updates, date) ==
    [f \in DOMAIN s |->
        IF f = "updatedAt" THEN date
        ELSE IF Given(updates, f) THEN updates[f] ELSE s[f]]

\* storage.updateSurvey: UPDATE surveys SET ...updates, updated_at = date
\* WHERE id = id.
updateSurvey(S, id, updates, date) ==
    {IF s.id = id THEN UpdatedSurvey(s, updates, date) ELSE s : s \in S}

\* .values(survey).returning(): a column survey gives no value for takes its
\* default: gen_random_uuid() for id and share_token, 'draft' for status,
\* false for multiple_responses, now() for updated_at.
InsertedSurvey(id, shareToken, date, survey) ==
    [id |-> IF Given(survey, "id") THEN survey.id ELSE id,
     createdBy |-> survey.createdBy,
     status |-> IF Given(survey, "status") THEN survey.status ELSE "draft",
     shareToken |-> IF Given(survey, "shareToken") THEN survey.shareToken
                    ELSE shareToken,
     multipleResponses |-> IF "multipleResponses" \in DOMAIN survey
                           THEN survey.multipleResponses ELSE FALSE,
     updatedAt |-> date]

\* storage.createSurvey: INSERT INTO surveys.
createSurvey(S, id, shareToken, date, survey) ==
    S \cup {InsertedSurvey(id, shareToken, date, survey)}

\* storage.createQuestion: INSERT INTO questions; id is gen_random_uuid(),
\* required defaults to false.
createQuestion(Q, id, question) ==
    Q \cup {[id |-> id,
             surveyId |-> question.surveyId,
             text |-> question.text,
             type |-> question.type,
             required |-> question.required,
             options |-> question.options,
             order |-> question.order]}

\* storage.updateQuestion: UPDATE questions SET ...updates WHERE id = id. The
\* keys of updates are the columns it sets; the others keep their value.
updateQuestion(Q, id, updates) ==
    {IF q.id = id
     THEN [f \in DOMAIN q |-> IF f \in DOMAIN updates THEN updates[f] ELSE q[f]]
     ELSE q : q \in Q}

\* storage.deleteQuestion: DELETE FROM questions WHERE id = id.
deleteQuestion(Q, id) == {q \in Q : q.id # id}

\* An insert under a unique constraint on (survey_id, respondent_id): a second
\* response of a respondent to a survey is not stored.
createResponse_OncePerRespondent(R, id, date, response) ==
    IF \E r \in R : /\ r.surveyId = response.surveyId
                     /\ r.respondentId = response.respondentId
    THEN R
    ELSE R \cup {[id |-> id,
                  surveyId |-> response.surveyId,
                  respondentId |-> response.respondentId,
                  createdAt |-> date]}

\* An upsert on (survey_id, respondent_id): the new row takes the place of the
\* respondent's earlier response to the survey.
createResponse_Upsert(R, id, date, response) ==
    {r \in R : ~(/\ r.surveyId = response.surveyId
                 /\ r.respondentId = response.respondentId)}
        \cup {[id |-> id,
               surveyId |-> response.surveyId,
               respondentId |-> response.respondentId,
               createdAt |-> date]}

\* storage.createResponse: INSERT INTO responses; id is gen_random_uuid() and
\* created_at is now().
createResponse(R, id, date, response) ==
    R \cup {[id |-> id,
             surveyId |-> response.surveyId,
             respondentId |-> response.respondentId,
             createdAt |-> date]}

\* storage.createAnswer: INSERT INTO answers; id is gen_random_uuid().
createAnswer(A, id, answer) ==
    A \cup {[id |-> id,
             responseId |-> answer.responseId,
             questionId |-> answer.questionId,
             value |-> answer.value]}

\* ------------------------------------------------------------ zod schemas

IsString(v) == v \notin {Absent, Null, BadType}

\* insertSurveySchema: title is a required string; status is an optional
\* string and multipleResponses an optional boolean. id, createdBy, shareToken,
\* createdAt and updatedAt are omitted from the schema, so parse() strips them
\* from a body that carries them.
insertSurveySchema(body) ==
    /\ IsString(body.title)
    /\ body.status = Absent \/ IsString(body.status)
    /\ "multipleResponses" \in DOMAIN body => body.multipleResponses \in BOOLEAN

\* insertSurveySchema.partial(): every key optional, types as above.
insertSurveySchemaPartial(body) ==
    /\ body.status = Absent \/ IsString(body.status)
    /\ "multipleResponses" \in DOMAIN body => body.multipleResponses \in BOOLEAN

\* insertQuestionSchema: text and type are required strings (order is supplied
\* by the route).
insertQuestionSchema(q) == IsString(q.text) /\ IsString(q.type)

\* insertResponseSchema: surveyId a string, respondentId a string or null.
insertResponseSchema(r) ==
    IsString(r.surveyId) /\ (r.respondentId = Null \/ IsString(r.respondentId))

\* insertAnswerSchema: responseId, questionId and value are required strings.
insertAnswerSchema(a) ==
    IsString(a.responseId) /\ IsString(a.questionId) /\ IsString(a.value)

\* A schema that omits nothing.
InsertSurveyKeys_All ==
    {"title", "status", "multipleResponses", "id", "createdBy", "shareToken"}

\* The keys of insertSurveySchema that name modelled columns: the table's
\* columns without the omitted id, createdBy, shareToken, createdAt, updatedAt.
InsertSurveyKeys == {"title", "status", "multipleResponses"}

\* A parse that keeps every key of data.
parse_Passthrough(keys, data) == data

\* schema.parse(data) on data the schema accepts: zod strips the keys the
\* schema does not have.
parse(keys, data) == [k \in DOMAIN data \cap keys |-> data[k]]

\* ------------------------------------------------------------ request bodies

\* The keys insertSurveySchema omits that name the survey's identity.
IdentityKeys == {"id", "createdBy", "shareToken"}

\* Values for them that a caller may put in a body.
ForgedKeys ==
    [id : {"forged-id"}, createdBy : {"u2"}, shareToken : {"forged-token"}]

QuestionInputs ==
    {[text |-> "Name?", type |-> "text", required |-> TRUE, options |-> <<>>],
     [text |-> "Pick", type |-> "multiple-choice", required |-> FALSE,
      options |-> <<"A", "B">>],
     [text |-> Absent, type |-> "text", required |-> FALSE, options |-> <<>>]}

SurveyBodies ==
    [title : {"Survey"},
     status : Statuses \cup {Absent},
     questions : SeqsUpTo(QuestionInputs, MaxQuestions)]
        \cup {[title |-> Absent, status |-> Absent, questions |-> <<>>]}
        \cup {[title |-> "Survey", status |-> Absent, questions |-> <<>>] @@ f :
                 f \in ForgedKeys}

\* The body the survey builder sends when it saves an existing survey: the
\* form's survey fields and its questions array, each question with its order.
BuilderBodies ==
    [status : {"active"},
     questions : {<<>>,
                  <<[text |-> "Pick", type |-> "multiple-choice",
                     required |-> FALSE, options |-> <<"A", "B">>, order |-> 0]>>}]

SurveyUpdateBodies ==
    [status : Statuses \cup {Absent, BadType}]
        \cup {[status |-> "active"] @@ f : f \in ForgedKeys}
        \cup BuilderBodies

\* One element of the answers array: a well-formed answer to any question id,
\* or one that lacks its value.
AnswerInputs ==
    [questionId : QuestionIds, value : Values]
        \cup {[questionId |-> QuestionIdPool[1], value |-> Absent]}

ResponseBodies ==
    [respondentId : RespondentIds \cup {Absent},
     answers : SeqsUpTo(AnswerInputs, MaxAnswers)]
        \cup {[respondentId |-> BadType, answers |-> <<>>]}

\* ------------------------------------------------------------ HTTP responses

NotFound(message) == [code |-> 404, message |-> message]
ZodError(message) == [code |-> 400, message |-> message]
Failed(message) == [code |-> 500, message |-> message]

\* ------------------------------------------------------------ access checks

\* Owner routes: if (!survey || survey.createdBy !== userId) return 404.
\* A handler that tells "not yours" from "not there": it refuses only a missing
\* survey.
NotOwned_MissingOnly(survey, userId) == survey = {}

NotOwned(survey, userId) ==
    survey = {} \/ \A s \in survey : s.createdBy # userId

\* A public check that forgets the status.
NotActive_MissingOnly(survey) == survey = {}

\* Public routes: if (!survey || survey.status !== 'active') return 404.
NotActive(survey) ==
    survey = {} \/ \A s \in survey : s.status # "active"

\* ------------------------------------------------------------- read routes

\* GET /api/surveys/:id. The possible responses (the order of questions with
\* equal order is the database's choice).
GetSurveyRoute(S, Q, userId, id) ==
    LET survey == getSurvey(S, id) IN
    IF NotOwned(survey, userId)
    THEN {NotFound("Survey not found")}
    ELSE {[code |-> 200, survey |-> s, questions |-> qs] :
            s \in survey, qs \in getQuestionsBySurvey(Q, id)}

\* A public fetch that serves every survey except a draft.
GetPublicSurveyRoute_ClosedToo(S, Q, shareToken) ==
    LET survey == getSurveyByShareToken(S, shareToken) IN
    IF survey = {} \/ \A s \in survey : s.status = "draft"
    THEN {NotFound("Survey not found or inactive")}
    ELSE UNION {{[code |-> 200, survey |-> s, questions |-> qs] :
                    qs \in getQuestionsBySurvey(Q, s.id)} : s \in survey}

\* GET /api/public/surveys/:shareToken.
GetPublicSurveyRoute(S, Q, shareToken) ==
    LET survey == getSurveyByShareToken(S, shareToken) IN
    IF NotActive(survey)
    THEN {NotFound("Survey not found or inactive")}
    ELSE UNION {{[code |-> 200, survey |-> s, questions |-> qs] :
                    qs \in getQuestionsBySurvey(Q, s.id)} : s \in survey}

\* GET /api/surveys/:id/responses.
GetSurveyResponsesRoute(S, R, A, userId, id) ==
    LET survey == getSurvey(S, id) IN
    IF NotOwned(survey, userId)
    THEN {NotFound("Survey not found")}
    ELSE {[code |-> 200, responses |-> rs, answers |-> as] :
            rs \in getResponsesBySurvey(R, id), as \in getAnswersBySurvey(A, R, id)}

GetSurvey(userId, id) ==
    /\ res = NoRes
    /\ \E r \in GetSurveyRoute(surveys, questions, userId, id) :
          res' = [route |-> "GET /api/surveys/:id", userId |-> userId, id |-> id,
                  response |-> r]
    /\ UNCHANGED <<store, now, issued, handlers, page>>

GetPublicSurvey(shareToken) ==
    /\ res = NoRes
    /\ \E r \in GetPublicSurveyRoute(surveys, questions, shareToken) :
          res' = [route |-> "GET /api/public/surveys/:shareToken",
                  shareToken |-> shareToken, response |-> r]
    /\ UNCHANGED <<store, now, issued, handlers, page>>

GetSurveyResponses(userId, id) ==
    /\ res = NoRes
    /\ \E r \in GetSurveyResponsesRoute(surveys, responses, answers, userId, id) :
          res' = [route |-> "GET /api/surveys/:id/responses", userId |-> userId,
                  id |-> id, response |-> r]
    /\ UNCHANGED <<store, now, issued, handlers, page>>

\* GET /api/stats.
GetStats(userId) ==
    /\ res = NoRes
    /\ res' = [route |-> "GET /api/stats", userId |-> userId,
               response |-> [code |-> 200,
                             stats |-> getSurveyStats(surveys, responses, userId)]]
    /\ UNCHANGED <<store, now, issued, handlers, page>>

\* ------------------------------------------------------------ write routes

\* array.map(parse) throws at the first element the schema rejects. parses[i]
\* tells whether the schema accepts element i: the index of the first rejected
\* element, or Len(parses) + 1 when every element parses.
FirstRejected(parses) ==
    IF \E i \in DOMAIN parses : ~parses[i]
    THEN CHOOSE i \in DOMAIN parses :
            ~parses[i] /\ \A j \in 1..(i - 1) : parses[j]
    ELSE Len(parses) + 1

\* The rows POST /api/surveys inserts for body: the survey and the questions
\* before the first one that fails to parse.
SurveyRows(body) ==
    IF insertSurveySchema(body)
    THEN FirstRejected([i \in DOMAIN body.questions |->
                           insertQuestionSchema(body.questions[i])])
    ELSE 0

\* POST /api/surveys.
PostSurvey(userId, body) ==
    LET route == [route |-> "POST /api/surveys", userId |-> userId,
                  identity |-> parse(IdentityKeys, body)] IN
    /\ res = NoRes
    /\ IF ~insertSurveySchema(body)
       THEN /\ res' = route @@ [response |-> ZodError("Invalid survey data")]
            /\ UNCHANGED <<store, now, issued, handlers, page>>
       ELSE \E id \in gen_random_uuid(SurveyIdPool, {s.id : s \in surveys}, 1),
               shareToken \in gen_random_uuid(TokenPool,
                                 {s.shareToken : s \in surveys} \cup issued.tokens, 1) :
            LET \* storage.createSurvey({ ...surveyData, createdBy: userId })
                surveyData == [createdBy |-> userId] @@ parse(InsertSurveyKeys, body)
                surveyRows == createSurvey(surveys, id[1], shareToken[1], now,
                                           surveyData)
                survey == InsertedSurvey(id[1], shareToken[1], now, surveyData)
                \* Questions before the first one that fails to parse have had
                \* storage.createQuestion called on them; their inserts complete.
                stop == FirstRejected([i \in DOMAIN body.questions |->
                                          insertQuestionSchema(body.questions[i])])
                created == 1..(stop - 1)
            IN \E qid \in gen_random_uuid(QuestionIdPool, {q.id : q \in questions},
                                          stop - 1) :
               /\ surveys' = surveyRows
               /\ questions' = questions \cup UNION
                     {createQuestion({}, qid[i],
                          [surveyId |-> survey.id,
                           text |-> body.questions[i].text,
                           type |-> body.questions[i].type,
                           required |-> body.questions[i].required,
                           options |-> body.questions[i].options,
                           order |-> i - 1]) : i \in created}
               /\ res' = route @@
                     [response |-> IF stop <= Len(body.questions)
                                   THEN ZodError("Invalid survey data")
                                   ELSE [code |-> 200, survey |-> survey]]
               /\ issued' = IF issued.followed
                            THEN [issued EXCEPT !.tokens = @ \cup {survey.shareToken}]
                            ELSE issued
               /\ UNCHANGED <<responses, answers, now, handlers, page>>

\* A PUT that updates whatever survey has the id.
PutSurveyRoute_NoOwnerCheck(S, userId, id, body) ==
    LET survey == getSurvey(S, id) IN
    IF survey = {}
    THEN [response |-> NotFound("Survey not found"), surveys |-> S]
    ELSE [response |-> [code |-> 200,
                        survey |-> UpdatedSurvey(CHOOSE u \in survey : TRUE,
                                                 parse(InsertSurveyKeys, body), now)],
          surveys |-> updateSurvey(S, id, parse(InsertSurveyKeys, body), now)]

\* PUT /api/surveys/:id on the surveys table S: the response and the table after.
PutSurveyRoute(S, userId, id, body) ==
    LET survey == getSurvey(S, id) IN
    IF NotOwned(survey, userId)
    THEN [response |-> NotFound("Survey not found"), surveys |-> S]
    ELSE IF ~insertSurveySchemaPartial(body)
    THEN [response |-> ZodError("Invalid survey data"), surveys |-> S]
    ELSE LET surveyData == parse(InsertSurveyKeys, body)
             updated == CHOOSE s \in survey : TRUE
         IN [response |-> [code |-> 200,
                           survey |-> UpdatedSurvey(updated, surveyData, now)],
             surveys |-> updateSurvey(S, id, surveyData, now)]

\* A PUT that takes the questions array of its body for the survey's new
\* questions: the questions the survey had are dropped.
PutSurvey_ReplacingQuestions(userId, id, body) ==
    LET r == PutSurveyRoute(surveys, userId, id, body) IN
    /\ res = NoRes
    /\ surveys' = r.surveys
    /\ questions' = IF r.response.code = 200 /\ "questions" \in DOMAIN body
                     THEN {q \in questions : q.surveyId # id}
                     ELSE questions
    /\ res' = [route |-> "PUT /api/surveys/:id", userId |-> userId, id |-> id,
               identity |-> parse(IdentityKeys, body),
               questions |-> "questions" \in DOMAIN body,
               response |-> r.response]
    /\ UNCHANGED <<responses, answers, now, issued, handlers, page>>

\* PUT /api/surveys/:id. The request is kept with what its body says of the
\* survey's identity and whether it carries a questions array.
PutSurvey(userId, id, body) ==
    LET r == PutSurveyRoute(surveys, userId, id, body) IN
    /\ res = NoRes
    /\ surveys' = r.surveys
    /\ res' = [route |-> "PUT /api/surveys/:id", userId |-> userId, id |-> id,
               identity |-> parse(IdentityKeys, body),
               questions |-> "questions" \in DOMAIN body,
               response |-> r.response]
    /\ UNCHANGED <<questions, responses, answers, now, issued, handlers, page>>

\* DELETE /api/surveys/:id on the surveys table S.
DeleteSurveyRoute(S, userId, id) ==
    LET survey == getSurvey(S, id) IN
    IF NotOwned(survey, userId)
    THEN [response |-> NotFound("Survey not found"), surveys |-> S]
    ELSE [response |-> [code |-> 204], surveys |-> deleteSurvey(S, id)]

DeleteSurvey(userId, id) ==
    LET r == DeleteSurveyRoute(surveys, userId, id) IN
    /\ res = NoRes
    /\ surveys' = r.surveys
    /\ questions' = CascadeQuestions(questions, r.surveys)
    /\ responses' = CascadeResponses(responses, r.surveys)
    /\ answers' = CascadeAnswers(answers, CascadeResponses(responses, r.surveys),
                                 CascadeQuestions(questions, r.surveys))
    /\ res' = [route |-> "DELETE /api/surveys/:id", userId |-> userId, id |-> id,
               response |-> r.response]
    /\ UNCHANGED <<now, issued, handlers, page>>

\* The most rows POST /api/public/surveys/:shareToken/responses inserts for
\* body: the response and an answer for each element of answers.
ResponseRows(body) == 1 + Len(body.answers)

\* POST /api/public/surveys/:shareToken/responses.
PostPublicResponse(shareToken, body) ==
    LET route == [route |-> "POST /api/public/surveys/:shareToken/responses",
                  shareToken |-> shareToken]
        survey == getSurveyByShareToken(surveys, shareToken)
        \* insertResponseSchema.parse({surveyId, respondentId: ... || null})
        insertResponse(s) ==
            [surveyId |-> s.id,
             respondentId |-> IF body.respondentId \in {Absent, ""} THEN Null
                              ELSE body.respondentId]
    IN
    /\ res = NoRes
    /\ IF NotActive(survey)
       THEN /\ res' = route @@ [response |-> NotFound("Survey not found or inactive")]
            /\ UNCHANGED <<store, now, issued, handlers, page>>
       ELSE \E s \in survey :
            IF ~insertResponseSchema(insertResponse(s))
            THEN /\ res' = route @@ [response |-> ZodError("Invalid response data")]
                 /\ UNCHANGED <<store, now, issued, handlers, page>>
            ELSE \E rid \in gen_random_uuid(ResponseIdPool,
                                            {r.id : r \in responses}, 1) :
                 LET answerData(a) == [responseId |-> rid[1],
                                       questionId |-> a.questionId,
                                       value |-> a.value]
                     \* Answers before the first one that fails to parse have
                     \* had storage.createAnswer called on them.
                     stop == FirstRejected([i \in DOMAIN body.answers |->
                                 insertAnswerSchema(answerData(body.answers[i]))])
                     called == SubSeq(body.answers, 1, stop - 1)
                     \* answers.question_id REFERENCES questions(id): the
                     \* insert of an answer to no stored question fails.
                     inserted == SelectSeq(called,
                                     LAMBDA a : \E q \in questions : q.id = a.questionId)
                 IN \E aid \in gen_random_uuid(AnswerIdPool, {a.id : a \in answers},
                                               Len(inserted)) :
                    /\ responses' = createResponse(responses, rid[1], now,
                                                 insertResponse(s))
                    /\ answers' = answers \cup UNION
                          {createAnswer({}, aid[i], answerData(inserted[i])) :
                              i \in DOMAIN inserted}
                    /\ res' = route @@
                          [response |->
                             IF stop <= Len(body.answers)
                             THEN ZodError("Invalid response data")
                             ELSE IF Len(inserted) # Len(called)
                             THEN Failed("Failed to submit response")
                             ELSE [code |-> 200,
                                   message |-> "Response submitted successfully"]]
                    /\ UNCHANGED <<surveys, questions, now, issued, handlers, page>>

\* res.json(...) / res.status(...).send(): the response leaves the server.
SendResponse ==
    /\ res # NoRes
    /\ res' = NoRes
    /\ UNCHANGED <<store, now, issued, handlers, page>>

\* ------------------------------------------------------------ specification

\* The two requests that insert rows, sent while the store has room for the
\* rows they insert: a request that could take the store past max rows is not
\* issued.
PostSurveyWithin(max, body) ==
    /\ res = NoRes
    /\ RowCount + SurveyRows(body) <= max
    /\ \E userId \in Users : PostSurvey(userId, body)

PostPublicResponseWithin(max, body) ==
    /\ res = NoRes
    /\ RowCount + ResponseRows(body) <= max
    /\ \E shareToken \in Tokens : PostPublicResponse(shareToken, body)

Init ==
    /\ surveys = {}
    /\ questions = {}
    /\ responses = {}
    /\ answers = {}
    /\ res = NoRes
    /\ now = 0
    /\ issued = NotFollowed
    /\ handlers = [h \in Slots |-> Idle]
    /\ form = NoForm
    /\ responseData = NoData
    /\ pageSurvey = NoData
    /\ analytics = NoCall
    /\ download = NoCall

Next ==
    \/ \E body \in SurveyBodies : PostSurveyWithin(MaxRows, body)
    \/ \E userId \in Users, id \in SurveyIds : GetSurvey(userId, id)
    \/ \E userId \in Users, id \in SurveyIds, body \in SurveyUpdateBodies :
          PutSurvey(userId, id, body)
    \/ \E userId \in Users, id \in SurveyIds : DeleteSurvey(userId, id)
    \/ \E shareToken \in Tokens : GetPublicSurvey(shareToken)
    \/ \E body \in ResponseBodies : PostPublicResponseWithin(MaxRows, body)
    \/ \E userId \in Users, id \in SurveyIds : GetSurveyResponses(userId, id)
    \/ \E userId \in Users : GetStats(userId)
    \/ SendResponse

Spec == Init /\ [][Next]_vars

\* ------------------------------------------------ storage called directly

\* The question operations of IStorage, as a caller of the storage layer may
\* invoke them (no route calls updateQuestion or deleteQuestion).

QuestionOrders == 0..MaxQuestions

QuestionUpdates ==
    [order : QuestionOrders] \cup [required : BOOLEAN]
        \cup [order : QuestionOrders, required : BOOLEAN]

\* storage.createQuestion(question) with a question that insertQuestionSchema
\* accepts; questions.survey_id REFERENCES surveys(id).
StorageCreateQuestion(surveyId, q, order) ==
    /\ res = NoRes
    /\ RowCount < MaxRows
    /\ insertQuestionSchema(q)
    /\ \E s \in surveys : s.id = surveyId
    /\ \E id \in gen_random_uuid(QuestionIdPool, {p.id : p \in questions}, 1) :
          questions' = createQuestion(questions, id[1],
                           [surveyId |-> surveyId, text |-> q.text, type |-> q.type,
                            required |-> q.required, options |-> q.options,
                            order |-> order])
    /\ UNCHANGED <<surveys, responses, answers, res, now, issued, handlers, page>>

\* storage.updateQuestion(id, updates).
StorageUpdateQuestion(id, updates) ==
    /\ res = NoRes
    /\ questions' = updateQuestion(questions, id, updates)
    /\ UNCHANGED <<surveys, responses, answers, res, now, issued, handlers, page>>

\* storage.deleteQuestion(id); the answers to the question go with it.
StorageDeleteQuestion(id) ==
    /\ res = NoRes
    /\ questions' = deleteQuestion(questions, id)
    /\ answers' = CascadeAnswers(answers, responses, deleteQuestion(questions, id))
    /\ UNCHANGED <<surveys, responses, res, now, issued, handlers, page>>

\* Survey creation and deletion and the two fetches through the routes, and
\* the three question operations of the storage layer.
NextStore ==
    \/ \E body \in SurveyBodies : PostSurveyWithin(MaxRows, body)
    \/ \E userId \in Users, id \in SurveyIds : DeleteSurvey(userId, id)
    \/ \E userId \in Users, id \in SurveyIds : GetSurvey(userId, id)
    \/ \E shareToken \in Tokens : GetPublicSurvey(shareToken)
    \/ SendResponse
    \/ \E surveyId \in SurveyIds, q \in QuestionInputs, order \in QuestionOrders :
          StorageCreateQuestion(surveyId, q, order)
    \/ \E id \in QuestionIds, updates \in QuestionUpdates :
          StorageUpdateQuestion(id, updates)
    \/ \E id \in QuestionIds : StorageDeleteQuestion(id)

SpecStore == Init /\ [][NextStore]_vars

\* ------------------------------------------------ updates and the clock

\* The clock new Date() reads, in ticks; it stops at MaxTime.
MaxTime == 1
\* The rows in the store while updates are followed.
MaxUpdateRows == 3

Tick ==
    /\ res = NoRes
    /\ now < MaxTime
    /\ now' = now + 1
    /\ UNCHANGED <<store, res, issued, handlers, page>>

\* Partial<InsertSurvey> objects a caller of the storage layer may pass.
SurveyUpdates ==
    [status : {"active", "closed"}]
        \cup [status : {"closed"}, createdBy : {"u2"}]

\* Partial<InsertQuestion> objects: a move to the end, a change of required,
\* and both fields at once.
QuestionPatches ==
    {u \in QuestionUpdates :
        /\ "order" \in DOMAIN u => u.order = MaxQuestions
        /\ DOMAIN u = {"required"} => u.required}

\* storage.updateSurvey(id, updates), called directly; new Date() is now.
StorageUpdateSurvey(id, updates) ==
    /\ res = NoRes
    /\ surveys' = updateSurvey(surveys, id, updates, now)
    /\ UNCHANGED <<questions, responses, answers, res, now, issued, handlers, page>>

\* The bodies the creation dialog sends with "Save as Draft": status 'draft'
\* and questions the schema accepts.
DraftBodies ==
    {body \in SurveyBodies :
        /\ body.status = "draft"
        /\ SurveyRows(body) = 1 + Len(body.questions)}

\* Surveys created through the route, the two update operations of the
\* storage layer, and the passing of time.
NextUpdate ==
    \/ \E body \in DraftBodies : PostSurveyWithin(MaxUpdateRows, body)
    \/ SendResponse
    \/ Tick
    \/ \E id \in SurveyIds, updates \in SurveyUpdates :
          StorageUpdateSurvey(id, updates)
    \/ \E id \in QuestionIds, updates \in QuestionPatches :
          StorageUpdateQuestion(id, updates)

SpecUpdate == Init /\ [][NextUpdate]_vars

\* ------------------------------------------------- share tokens followed

\* The empty store, with the share tokens given from here on followed.
InitTokens ==
    /\ surveys = {}
    /\ questions = {}
    /\ responses = {}
    /\ answers = {}
    /\ res = NoRes
    /\ now = 0
    /\ issued = [followed |-> TRUE, tokens |-> {}]
    /\ handlers = [h \in Slots |-> Idle]
    /\ responseData = NoData
    /\ pageSurvey = NoData
    /\ analytics = NoCall
    /\ download = NoCall
    /\ form = NoForm

\* The requests that write surveys, and the lookup by token.
NextTokens ==
    \/ \E body \in SurveyBodies : PostSurveyWithin(MaxRows, body)
    \/ \E userId \in Users, id \in SurveyIds, body \in SurveyUpdateBodies :
          PutSurvey(userId, id, body)
    \/ \E userId \in Users, id \in SurveyIds : DeleteSurvey(userId, id)
    \/ \E shareToken \in Tokens : GetPublicSurvey(shareToken)
    \/ SendResponse

SpecTokens == InitTokens /\ [][NextTokens]_vars

\* ------------------------------------------------- responses over time

\* Most rows the four tables hold together while responses are followed.
MaxResponseRows == 3

\* Bodies that publish a survey without questions, with the form's
\* multipleResponses switch on or off.
SwitchBodies ==
    [title : {"Survey"}, status : {"active"}, multipleResponses : BOOLEAN,
     questions : {<<>>}]

\* Bodies with which an owner closes and reopens a survey.
StatusBodies == [status : {"closed", "active"}]

\* Every request that writes responses or changes their survey, and the
\* passing of time.
NextResponses ==
    \/ \E body \in SwitchBodies : PostSurveyWithin(MaxResponseRows, body)
    \/ \E body \in ResponseBodies : PostPublicResponseWithin(MaxResponseRows, body)
    \/ \E userId \in Users, id \in SurveyIds, body \in StatusBodies :
          PutSurvey(userId, id, body)
    \/ \E userId \in Users, id \in SurveyIds : DeleteSurvey(userId, id)
    \/ Tick
    \/ SendResponse

SpecResponses == Init /\ [][NextResponses]_vars

\* ------------------------------------------------- surveys and submissions

\* Most rows the four tables hold together when surveys are only published,
\* answered and deleted.
MaxSubmitRows == 5

\* Bodies that publish a survey of at most one question.
PublishBodies ==
    {body \in SurveyBodies :
        /\ body.status = "active"
        /\ Len(body.questions) <= 1
        /\ SurveyRows(body) = 1 + Len(body.questions)}

\* Publishing surveys, submitting responses to them and deleting them.
NextSubmit ==
    \/ \E body \in PublishBodies : PostSurveyWithin(MaxSubmitRows, body)
    \/ \E body \in ResponseBodies : PostPublicResponseWithin(MaxSubmitRows, body)
    \/ \E userId \in Users, id \in SurveyIds : DeleteSurvey(userId, id)
    \/ SendResponse

SpecSubmit == Init /\ [][NextSubmit]_vars

\* ------------------------------------------- submissions step by step

\* POST /api/public/surveys/:shareToken/responses as the steps its awaits cut
\* it into; other requests run between the steps. handlers[h] is the position
\* of the submission in slot h and what it holds in its local variables.

\* The response of a handler that has not answered yet.
Unanswered == [code |-> 0]

\* Submissions with answers that parse, to the first question.
AsyncAnswers == [questionId : {QuestionIdPool[1]}, value : Values]
AsyncBodies == [respondentId : {Absent}, answers : SeqsUpTo(AsyncAnswers, MaxAnswers)]

\* Most rows in the store when a survey is published here: there is one
\* survey, with its question.
MaxAskRows == 2

\* Bodies that publish a survey of one question.
AskBodies == {body \in PublishBodies : Len(body.questions) = 1}

\* The response of the most recent insert into responses.
AnswerData_LatestResponse(responseId, a) ==
    [responseId |-> IF \E r \in responses : r.id = ResponseIdPool[2]
                    THEN ResponseIdPool[2] ELSE ResponseIdPool[1],
     questionId |-> a.questionId,
     value |-> a.value]

\* { ...a, responseId: response.id }
AnswerData(responseId, a) ==
    [responseId |-> responseId, questionId |-> a.questionId, value |-> a.value]

\* A request arrives and runs to its first await and past it:
\* storage.getSurveyByShareToken and the status check. It takes the lowest
\* idle slot; a slot handles one request.
Resolve(h, shareToken, body) ==
    LET survey == getSurveyByShareToken(surveys, shareToken) IN
    /\ handlers[h] = Idle
    /\ \A g \in Slots : g < h => handlers[g] # Idle
    /\ handlers' = [handlers EXCEPT ![h] =
          IF NotActive(survey)
          THEN [at |-> "done", body |-> body,
                response |-> NotFound("Survey not found or inactive")]
          ELSE [at |-> "resolved", body |-> body,
                surveyId |-> (CHOOSE s \in survey : TRUE).id]]
    /\ UNCHANGED <<store, res, now, issued, page>>

\* insertResponseSchema.parse and await storage.createResponse, then the
\* answers.map up to its first throw: storage.createAnswer has been called on
\* the answers before the first one that fails to parse (pending), and none
\* of the inserts has run yet. responses.survey_id REFERENCES surveys(id).
InsertResponse(h) ==
    LET hd == handlers[h]
        responseData_ ==
            [surveyId |-> hd.surveyId,
             respondentId |-> IF hd.body.respondentId \in {Absent, ""} THEN Null
                              ELSE hd.body.respondentId]
    IN
    /\ hd.at = "resolved"
    /\ IF ~insertResponseSchema(responseData_)
       THEN /\ handlers' = [handlers EXCEPT ![h] =
                  [at |-> "done", body |-> hd.body,
                   response |-> ZodError("Invalid response data")]]
            /\ UNCHANGED responses
       ELSE IF ~\E s \in surveys : s.id = hd.surveyId
       THEN /\ handlers' = [handlers EXCEPT ![h] =
                  [at |-> "done", body |-> hd.body,
                   response |-> Failed("Failed to submit response")]]
            /\ UNCHANGED responses
       ELSE \E rid \in gen_random_uuid(ResponseIdPool, {r.id : r \in responses}, 1) :
            LET stop == FirstRejected([i \in DOMAIN hd.body.answers |->
                           insertAnswerSchema(AnswerData(rid[1], hd.body.answers[i]))])
            IN /\ responses' = createResponse(responses, rid[1], now, responseData_)
               /\ handlers' = [handlers EXCEPT ![h] =
                     [at |-> "answers", body |-> hd.body, surveyId |-> hd.surveyId,
                      responseId |-> rid[1], pending |-> 1..(stop - 1),
                      threw |-> stop <= Len(hd.body.answers), failed |-> FALSE,
                      response |-> Unanswered]]
    /\ UNCHANGED <<surveys, questions, answers, res, now, issued, page>>

\* One of the pending createAnswer inserts runs; the inserts of Promise.all run
\* in any order. answers.response_id and answers.question_id are foreign keys:
\* the insert fails when either row is gone.
InsertAnswer(h, i) ==
    LET hd == handlers[h]
        answerData == AnswerData(hd.responseId, hd.body.answers[i])
    IN
    /\ hd.at = "answers"
    /\ i \in hd.pending
    /\ IF /\ \E r \in responses : r.id = answerData.responseId
          /\ \E q \in questions : q.id = answerData.questionId
       THEN \E aid \in gen_random_uuid(AnswerIdPool, {a.id : a \in answers}, 1) :
            /\ answers' = createAnswer(answers, aid[1], answerData)
            /\ handlers' = [handlers EXCEPT ![h].pending = @ \ {i}]
       ELSE /\ handlers' = [handlers EXCEPT ![h].pending = @ \ {i},
                                            ![h].failed = TRUE]
            /\ UNCHANGED answers
    /\ UNCHANGED <<surveys, questions, responses, res, now, issued, page>>

\* The handler answers: 400 from the catch block when a parse threw, 500 when
\* Promise.all rejected (an insert failed), 200 when every insert is done.
Respond(h) ==
    LET hd == handlers[h] IN
    /\ hd.at = "answers"
    /\ hd.response = Unanswered
    /\ hd.threw \/ hd.failed \/ hd.pending = {}
    /\ handlers' = [handlers EXCEPT ![h].response =
          IF hd.threw THEN ZodError("Invalid response data")
          ELSE IF hd.failed THEN Failed("Failed to submit response")
          ELSE [code |-> 200, message |-> "Response submitted successfully"]]
    /\ UNCHANGED <<store, res, now, issued, page>>

\* A survey is published, its owner closes and reopens it, and two
\* submissions are handled, their steps interleaved in every way.
NextAsync ==
    \/ \E body \in AskBodies : PostSurveyWithin(MaxAskRows, body)
    \/ \E userId \in Users, id \in SurveyIds, body \in StatusBodies :
          PutSurvey(userId, id, body)
    \/ SendResponse
    \/ \E h \in Slots, shareToken \in Tokens, body \in AsyncBodies :
          Resolve(h, shareToken, body)
    \/ \E h \in Slots : InsertResponse(h)
    \/ \E h \in Slots, i \in 1..MaxAnswers : InsertAnswer(h, i)
    \/ \E h \in Slots : Respond(h)

SpecAsync == Init /\ [][NextAsync]_vars

\* ------------------------------------------------------- analytics page

\* Largest integer whose decimal string occurs as an object key here.
MaxIndexKey == 11

\* A JavaScript object is the sequence of its own [key, value] properties in
\* enumeration order: the keys that are array indices ("0", "1", ...) first, in
\* ascending numeric order, then the other string keys in insertion order.
IsArrayIndex(key) == \E n \in 0..MaxIndexKey : ToString(n) = key
ArrayIndex(key) == CHOOSE n \in 0..MaxIndexKey : ToString(n) = key

\* obj.hasOwnProperty(key)
hasOwnProperty(obj, key) == \E i \in DOMAIN obj : obj[i].key = key

\* obj[key] = value
SetProperty(obj, key, value) ==
    IF hasOwnProperty(obj, key)
    THEN [i \in DOMAIN obj |->
            IF obj[i].key = key THEN [key |-> key, value |-> value] ELSE obj[i]]
    ELSE IF IsArrayIndex(key)
    THEN LET Lower(e) == IsArrayIndex(e.key) /\ ArrayIndex(e.key) < ArrayIndex(key)
         IN SelectSeq(obj, Lower) \o <<[key |-> key, value |-> value]>>
                \o SelectSeq(obj, LAMBDA e : ~Lower(e))
    ELSE Append(obj, [key |-> key, value |-> value])

\* obj[key]
GetProperty(obj, key) == (CHOOSE e \in Range(obj) : e.key = key).value

\* keys.forEach(key => { counts[key] = 0 }) from the i-th key on.
RECURSIVE ZeroCounts(_, _, _)
ZeroCounts(keys, i, counts) ==
    IF i > Len(keys) THEN counts
    ELSE ZeroCounts(keys, i + 1, SetProperty(counts, keys[i], 0))

\* questionAnswers.forEach(answer => { if (counts.hasOwnProperty(answer.value))
\* counts[answer.value]++ }) from the i-th answer on.
RECURSIVE CountAnswers(_, _, _)
CountAnswers(questionAnswers, i, counts) ==
    IF i > Len(questionAnswers) THEN counts
    ELSE LET value == questionAnswers[i].value IN
         CountAnswers(questionAnswers, i + 1,
             IF hasOwnProperty(counts, value)
             THEN SetProperty(counts, value, GetProperty(counts, value) + 1)
             ELSE counts)

\* A rating chart of five stars.
RatingKeys_FiveStars == [i \in 1..5 |-> ToString(i)]

\* for (let i = 1; i <= 10; i++) ratingCounts[i.toString()] = 0
RatingKeys == [i \in 1..10 |-> ToString(i)]

\* A filter that lets every answer of the survey through.
QuestionAnswers_AllAnswers(data, question) == data.answers

\* responseData.answers.filter(answer => answer.questionId === question.id)
QuestionAnswers(data, question) ==
    SelectSeq(data.answers, LAMBDA answer : answer.questionId = question.id)

\* option.length > 20 ? option.slice(0, 20) + "..." : option
ChartName(option) ==
    IF Len(option) > 20 THEN SubSeq(option, 1, 20) \o "..." ELSE option

\* getQuestionAnalytics(question) of the analytics page, on the page's
\* responseData (data).
getQuestionAnalytics(data, question) ==
    IF ~data.loaded THEN Null
    ELSE
    LET questionAnswers == QuestionAnswers(data, question) IN
    IF question.type = "multiple-choice"
    THEN LET optionCounts ==
                 CountAnswers(questionAnswers, 1, ZeroCounts(question.options, 1, <<>>))
         IN [i \in DOMAIN optionCounts |->
                [name |-> ChartName(optionCounts[i].key),
                 value |-> optionCounts[i].value,
                 fullName |-> optionCounts[i].key]]
    ELSE IF question.type = "rating"
    THEN LET ratingCounts ==
                 CountAnswers(questionAnswers, 1, ZeroCounts(RatingKeys, 1, <<>>))
         IN [i \in DOMAIN ratingCounts |->
                [name |-> ratingCounts[i].key, value |-> ratingCounts[i].value]]
    ELSE [i \in DOMAIN questionAnswers |-> questionAnswers[i].value]

\* Longest answers list and longest options list the page is given.
MaxPageAnswers == 4
MaxOptions == 2

\* The page shows question q1; q2 is another question of the same survey.
PageAnswerValues == {"A", "B", "C", "10"}
PageAnswers ==
    [questionId : {"q1"}, value : PageAnswerValues]
        \cup {[questionId |-> "q2", value |-> "A"]}
PageOptions == {"A", "B", "10", "Very satisfied with the service"}
PageQuestions ==
    [id : {"q1"}, type : {"multiple-choice"},
     options : SeqsUpTo(PageOptions, MaxOptions)]
        \cup [id : {"q1"}, type : {"rating", "text", "textarea"}, options : {<<>>}]

\* The page renders a question: it calls getQuestionAnalytics on it, and again
\* on the same question whenever it renders again.
RenderQuestion(question) ==
    /\ analytics.called => analytics.question = question
    /\ analytics' = [called |-> TRUE, question |-> question,
                     result |-> getQuestionAnalytics(responseData, question)]
    /\ UNCHANGED <<store, res, now, issued, handlers, responseData, pageSurvey,
                   download, form>>

\* The page with its /responses query loaded with any answers list.
InitAnalytics ==
    /\ surveys = {}
    /\ questions = {}
    /\ responses = {}
    /\ answers = {}
    /\ res = NoRes
    /\ responseData \in
          [loaded : {TRUE}, answers : SeqsUpTo(PageAnswers, MaxPageAnswers)]
    /\ now = 0
    /\ issued = NotFollowed
    /\ handlers = [h \in Slots |-> Idle]
    /\ form = NoForm
    /\ pageSurvey = NoData
    /\ analytics = NoCall
    /\ download = NoCall

NextAnalytics == \E question \in PageQuestions : RenderQuestion(question)

SpecAnalytics == InitAnalytics /\ [][NextAnalytics]_vars

\* -------------------------------------------------------------- CSV export

\* survey?.questions?.find(q => q.id === questionId): the first question of
\* the page's survey with this id, as a sequence of at most one element.
FindQuestion(survey, questionId) ==
    IF ~survey.loaded THEN <<>>
    ELSE LET found == SelectSeq(survey.questions, LAMBDA q : q.id = questionId)
         IN IF found = <<>> THEN <<>> ELSE <<found[1]>>

\* responseData.answers.forEach(answer => { if (answer.responseId ===
\* response.id) { question = find(...); if (question) row[question.text] =
\* answer.value } }) from the i-th answer on.
RECURSIVE AddAnswers(_, _, _, _, _)
AddAnswers(data, survey, response, i, row) ==
    IF i > Len(data.answers) THEN row
    ELSE LET answer == data.answers[i]
             question == FindQuestion(survey, answer.questionId)
         IN AddAnswers(data, survey, response, i + 1,
                IF answer.responseId = response.id /\ question # <<>>
                THEN SetProperty(row, question[1].text, answer.value)
                ELSE row)

\* The row object exportData builds for one response.
CsvRow(data, survey, response) ==
    AddAnswers(data, survey, response, 1,
        <<[key |-> "responseId", value |-> response.id],
          [key |-> "submittedAt", value |-> response.createdAt]>>)

\* Object.keys(obj) and Object.values(obj).
ObjectKeys(obj) == [i \in DOMAIN obj |-> obj[i].key]
ObjectValues(obj) == [i \in DOMAIN obj |-> obj[i].value]

\* exportData() of the analytics page on the page's responseData (data) and
\* survey: the CSV it offers for download, or Null when it offers none. The
\* CSV is the sequence of its lines and a line the sequence of its cells:
\* join(',') puts a comma between the cells and join('\n') a newline between
\* the lines, and no value here holds either character.
exportData(data, survey) ==
    IF ~data.loaded THEN Null
    ELSE LET csvData ==
                 [i \in DOMAIN data.responses |->
                     CsvRow(data, survey, data.responses[i])]
         IN IF Len(csvData) > 0
            THEN <<ObjectKeys(csvData[1])>>
                     \o [i \in DOMAIN csvData |-> ObjectValues(csvData[i])]
            ELSE Null

\* Longest answers list the export is given.
MaxExportAnswers == 3

\* The survey of the page has two questions; the /responses query gives up to
\* two responses and any answers of theirs to the two questions, in any order.
ExportQuestions ==
    <<[id |-> "q1", text |-> "Name?"], [id |-> "q2", text |-> "Pick"]>>
ExportResponses ==
    UNION {InjSeqs([id : ResponseIds, createdAt : {"t0"}], n) : n \in 0..2}
ExportAnswers ==
    [responseId : ResponseIds, questionId : {"q1", "q2"}, value : {"A", "B"}]

\* The owner clicks Export.
ExportData ==
    /\ ~download.called
    /\ download' = [called |-> TRUE, csv |-> exportData(responseData, pageSurvey)]
    /\ UNCHANGED <<store, res, now, issued, handlers, responseData, pageSurvey,
                   analytics, form>>

\* The page with its two queries loaded, or its /responses query still
\* loading.
InitExport ==
    /\ surveys = {}
    /\ questions = {}
    /\ responses = {}
    /\ answers = {}
    /\ res = NoRes
    /\ now = 0
    /\ issued = NotFollowed
    /\ handlers = [h \in Slots |-> Idle]
    /\ form = NoForm
    /\ \/ responseData = NoData
       \/ responseData \in
             [loaded : {TRUE}, responses : ExportResponses,
              answers : SeqsUpTo(ExportAnswers, MaxExportAnswers)]
    /\ pageSurvey = [loaded |-> TRUE, questions |-> ExportQuestions]
    /\ analytics = NoCall
    /\ download = NoCall

NextExport == ExportData

SpecExport == InitExport /\ [][NextExport]_vars

\* ---------------------------------------------------------------------
\* survey-public.tsx: the public page of a survey. form holds the page's
\* state: survey (the data of its query), responses (the useState object, its
\* entries in insertion order), isSubmitted, isPending (of submitMutation),
\* toast (the title of the last toast) and sent (the bodies handed to
\* submitMutation.mutate, in order).

\* Most requests a visit of the page sends.
MaxSent == 2

\* What an input of the page hands to handleInputChange; "" is a text input
\* that was cleared.
InputValues == Values \cup {""}

\* The questions of the fetched survey: up to two, of distinct ids.
PublicQuestions ==
    {qs \in SeqsUpTo([id : QuestionIds, required : BOOLEAN], Len(QuestionIdPool)) :
        \A i, j \in DOMAIN qs : qs[i].id = qs[j].id => i = j}

\* !responses[q.id], with the entry undefined or the empty string
missingRequired_OnlyUndefined(survey, responses_) ==
    SelectSeq(survey.questions,
              LAMBDA q : q.required /\ ~hasOwnProperty(responses_, q.id))

\* survey.questions.filter(q => q.required).filter(q => !responses[q.id])
missingRequired(survey, responses_) ==
    SelectSeq(survey.questions,
              LAMBDA q : /\ q.required
                         /\ \/ ~hasOwnProperty(responses_, q.id)
                            \/ GetProperty(responses_, q.id) = "")

\* Object.entries(responses).map(([questionId, value]) => ({questionId, value}))
EntriesToAnswers(responses_) ==
    [i \in DOMAIN responses_ |->
        [questionId |-> responses_[i].key, value |-> responses_[i].value]]

\* The query of the page resolves with the survey and its questions.
SurveyFetched(qs) ==
    /\ form.survey = NoData
    /\ form' = [form EXCEPT !.survey = [loaded |-> TRUE, questions |-> qs]]
    /\ UNCHANGED <<store, res, now, issued, handlers, responseData, pageSurvey,
                   analytics, download>>

\* handleInputChange, called by the input of a rendered question; the form
\* is rendered once the survey is there and until isSubmitted.
handleInputChange(questionId, value) ==
    /\ form.survey # NoData
    /\ ~form.isSubmitted
    /\ \E i \in DOMAIN form.survey.questions : form.survey.questions[i].id = questionId
    /\ form' = [form EXCEPT !.responses = SetProperty(@, questionId, value)]
    /\ UNCHANGED <<store, res, now, issued, handlers, responseData, pageSurvey,
                   analytics, download>>

\* handleSubmit, from the form's submit; the submit button is disabled while
\* the mutation is pending. Without a survey it returns at once (and the form
\* is not rendered).
handleSubmit ==
    /\ ~form.isSubmitted
    /\ ~form.isPending
    /\ Len(form.sent) < MaxSent
    /\ form.survey # NoData
    /\ IF Len(missingRequired(form.survey, form.responses)) > 0
       THEN form' = [form EXCEPT !.toast = "Required Fields Missing"]
       ELSE form' = [form EXCEPT
                !.sent = Append(@, [answers |-> EntriesToAnswers(form.responses),
                                    respondentId |-> <<"anonymous_", now>>]),
                !.isPending = TRUE]
    /\ UNCHANGED <<store, res, now, issued, handlers, responseData, pageSurvey,
                   analytics, download>>

\* onSuccess of submitMutation
onSuccess ==
    /\ form.isPending
    /\ form' = [form EXCEPT !.isPending = FALSE, !.isSubmitted = TRUE,
                            !.toast = "Success"]
    /\ UNCHANGED <<store, res, now, issued, handlers, responseData, pageSurvey,
                   analytics, download>>

\* onError of submitMutation
onError ==
    /\ form.isPending
    /\ form' = [form EXCEPT !.isPending = FALSE, !.toast = "Error"]
    /\ UNCHANGED <<store, res, now, issued, handlers, responseData, pageSurvey,
                   analytics, download>>

NextPublic ==
    \/ \E qs \in PublicQuestions : SurveyFetched(qs)
    \/ \E questionId \in QuestionIds, value \in InputValues :
          handleInputChange(questionId, value)
    \/ handleSubmit
    \/ onSuccess
    \/ onError

SpecPublic == Init /\ [][NextPublic]_vars

\* ------------------------------------------------------------------ claims

PublicGet == "GET /api/public/surveys/:shareToken"
PublicPost == "POST /api/public/surveys/:shareToken/responses"
OwnerRoutes ==
    {"GET /api/surveys/:id", "PUT /api/surveys/:id", "DELETE /api/surveys/:id",
     "GET /api/surveys/:id/responses"}

\* C1: the public fetch answers 200 with the survey exactly when a survey with
\* the requested share token exists and is active; otherwise (no such token, or
\* a draft or closed survey, even with the right token) it answers 404.
C1_PublicFetchOnlyActive ==
    res.route = PublicGet =>
        LET active == {s \in surveys :
                          s.shareToken = res.shareToken /\ s.status = "active"}
        IN IF active = {}
           THEN res.response = NotFound("Survey not found or inactive")
           ELSE res.response.code = 200 /\ res.response.survey \in active

\* C1 witness: the public fetch has answered 404 for the correct token of a
\* closed survey.
C1_Witness ==
    /\ res.route = PublicGet
    /\ res.response.code = 404
    /\ \E s \in surveys : s.shareToken = res.shareToken /\ s.status = "closed"

\* C2: a public submission for a token that matches no active survey answers
\* 404 and adds no Response and no Answer row; every Response row a step adds
\* comes from a public submission and belongs to the survey that holds the
\* submitted token and is active.
C2_SubmitOnlyActive ==
    [][LET active == {s \in surveys :
                        /\ res'.route = PublicPost
                        /\ s.shareToken = res'.shareToken
                        /\ s.status = "active"}
       IN /\ (res'.route = PublicPost /\ active = {}) =>
                /\ res'.response = NotFound("Survey not found or inactive")
                /\ responses' = responses
                /\ answers' = answers
          /\ \A r \in responses' \ responses :
                /\ res'.route = PublicPost
                /\ \E s \in active : r.surveyId = s.id]_vars

\* C2 witness: a public submission with the correct token of a draft survey has
\* been answered 404.
C2_Witness ==
    /\ res.route = PublicPost
    /\ res.response.code = 404
    /\ \E s \in surveys : s.shareToken = res.shareToken /\ s.status = "draft"

\* The store without survey s and, by the cascade, without its rows.
Without(s) ==
    LET S == surveys \ {s}
        Q == CascadeQuestions(questions, S)
        R == CascadeResponses(responses, S)
    IN [surveys |-> S, questions |-> Q, responses |-> R,
        answers |-> CascadeAnswers(answers, R, Q)]

\* C3: for every caller and every survey of another user, each owner route
\* gives the caller the answer it gives in the store that lacks that survey,
\* and that answer is 404 "Survey not found"; PUT and DELETE change nothing.
C3_NotOwnedLooksAbsent ==
    /\ \A s \in surveys : \A userId \in Users \ {s.createdBy} :
          LET w == Without(s) IN
          /\ GetSurveyRoute(surveys, questions, userId, s.id)
                = GetSurveyRoute(w.surveys, w.questions, userId, s.id)
          /\ GetSurveyResponsesRoute(surveys, responses, answers, userId, s.id)
                = GetSurveyResponsesRoute(w.surveys, w.responses, w.answers,
                                          userId, s.id)
          /\ \A body \in SurveyUpdateBodies :
                /\ PutSurveyRoute(surveys, userId, s.id, body).response
                      = PutSurveyRoute(w.surveys, userId, s.id, body).response
                /\ PutSurveyRoute(surveys, userId, s.id, body).surveys = surveys
          /\ DeleteSurveyRoute(surveys, userId, s.id).response
                = DeleteSurveyRoute(w.surveys, userId, s.id).response
          /\ DeleteSurveyRoute(surveys, userId, s.id).surveys = surveys
    /\ (res.route \in OwnerRoutes /\ res.response.code # 204) =>
          (res.response = NotFound("Survey not found")
             <=> ~ \E s \in surveys : s.id = res.id /\ s.createdBy = res.userId)

\* C3 witness: an owner route has answered 404 to a caller for a survey that
\* exists and belongs to another user.
C3_Witness ==
    /\ res.route = "PUT /api/surveys/:id"
    /\ res.response.code = 404
    /\ \E s \in surveys : s.id = res.id /\ s.createdBy # res.userId


\* The required questions of the survey with this share token that the answers
\* array gives no non-empty value.
MissingRequired(shareToken, body) ==
    {q \in questions :
        /\ q.required
        /\ \E s \in surveys : s.shareToken = shareToken /\ s.id = q.surveyId
        /\ ~ \E i \in DOMAIN body.answers :
               /\ body.answers[i].questionId = q.id
               /\ IsString(body.answers[i].value)
               /\ body.answers[i].value # ""}

\* C4: a public submission that lacks a non-empty answer to a required
\* question is rejected and leaves the Response and Answer rows as they were;
\* hence every stored Response has a non-empty Answer to every required
\* Question of its survey.
C4_RequiredAnswersEnforced ==
    [][/\ \A shareToken \in Tokens, body \in ResponseBodies :
            (/\ PostPublicResponse(shareToken, body)
             /\ MissingRequired(shareToken, body) # {})
                => /\ res'.response.code # 200
                   /\ responses' = responses
                   /\ answers' = answers
       /\ \A r \in responses', q \in questions' :
            (q.surveyId = r.surveyId /\ q.required)
                => \E a \in answers' :
                      a.responseId = r.id /\ a.questionId = q.id /\ a.value # ""]_vars

\* C5: a public submission is all-or-nothing: after it, either its Response row
\* and an Answer row for every element of its answers array exist, or the
\* Response and Answer rows are those from before the request.
C5_SubmissionAllOrNothing ==
    [][\A shareToken \in Tokens, body \in ResponseBodies :
          PostPublicResponse(shareToken, body)
            => \/ responses' = responses /\ answers' = answers
               \/ \E r \in responses' \ responses :
                     \A i \in DOMAIN body.answers :
                        \E a \in answers' \ answers :
                           /\ a.responseId = r.id
                           /\ a.questionId = body.answers[i].questionId
                           /\ a.value = body.answers[i].value]_vars

\* C6: when DELETE /api/surveys/:id answers 204, no Question or Response of
\* that survey and no Answer to one of them is in the store any more, and the
\* owner fetch by its id and the public fetch by its former share token both
\* answer 404.
C6_DeleteCascades ==
    [][(res'.route = "DELETE /api/surveys/:id" /\ res'.response.code = 204) =>
         LET deleted == {s \in surveys : s.id = res'.id}
             oldQ == {q \in questions : q.surveyId = res'.id}
             oldR == {r \in responses : r.surveyId = res'.id}
             oldA == {a \in answers :
                        \/ \E r \in oldR : a.responseId = r.id
                        \/ \E q \in oldQ : a.questionId = q.id}
         IN /\ deleted # {}
            /\ surveys' = surveys \ deleted
            /\ questions' = questions \ oldQ
            /\ responses' = responses \ oldR
            /\ answers' = answers \ oldA
            /\ GetSurveyRoute(surveys', questions', res'.userId, res'.id)
                  = {NotFound("Survey not found")}
            /\ \A s \in deleted :
                  GetPublicSurveyRoute(surveys', questions', s.shareToken)
                    = {NotFound("Survey not found or inactive")}]_vars

\* C6 witness: a DELETE has answered 204 while another survey, with a response,
\* stays in the store.
C6_Witness ==
    /\ res.route = "DELETE /api/surveys/:id"
    /\ res.response.code = 204
    /\ \E s \in surveys : \E r \in responses : r.surveyId = s.id

\* C7: in every survey the order values of its questions are exactly
\* 0 .. N-1, N the number of its questions, each once.
C7_DenseOrder ==
    \A s \in surveys :
        LET qs == {q \in questions : q.surveyId = s.id} IN
        /\ {q.order : q \in qs} = 0..(Cardinality(qs) - 1)
        /\ \A p, q \in qs : p.order = q.order => p = q

\* The number of the page's answers to question q that have value v.
CountOf(q, v) ==
    Cardinality({i \in DOMAIN responseData.answers :
                    /\ responseData.answers[i].questionId = q.id
                    /\ responseData.answers[i].value = v})

\* The declared options without repetitions, each at its first place.
RECURSIVE Declared(_, _)
Declared(options, i) ==
    IF i > Len(options) THEN <<>>
    ELSE (IF \E j \in 1..(i - 1) : options[j] = options[i] THEN <<>>
          ELSE <<options[i]>>) \o Declared(options, i + 1)

\* C8: for a multiple-choice question getQuestionAnalytics returns one entry
\* per declared option, in the order of declaration, whose count is the number
\* of the question's answers equal to the option; other answers count nowhere.
C8_MultipleChoiceCounts ==
    (analytics.called /\ analytics.question.type = "multiple-choice") =>
        LET declared == Declared(analytics.question.options, 1) IN
        /\ Len(analytics.result) = Len(declared)
        /\ \A i \in DOMAIN declared :
              /\ analytics.result[i].fullName = declared[i]
              /\ analytics.result[i].value = CountOf(analytics.question, declared[i])

\* C9: for a rating question getQuestionAnalytics returns the ten buckets "1"
\* to "10" in ascending order, each with the number of the question's answers
\* equal to its name, whatever the answers are.
C9_RatingBuckets ==
    (analytics.called /\ analytics.question.type = "rating") =>
        LET names == <<"1", "2", "3", "4", "5", "6", "7", "8", "9", "10">> IN
        /\ Len(analytics.result) = 10
        /\ \A i \in 1..10 :
              analytics.result[i]
                = [name |-> names[i], value |-> CountOf(analytics.question, names[i])]

\* C9 witness: a rating question rendered on answers "10" and "C": bucket "10"
\* counts one, and "C" is in no bucket.
C9_Witness ==
    /\ analytics.called
    /\ analytics.question.type = "rating"
    /\ \E i, j \in DOMAIN responseData.answers :
          /\ responseData.answers[i] = [questionId |-> "q1", value |-> "10"]
          /\ responseData.answers[j] = [questionId |-> "q1", value |-> "C"]
    /\ analytics.result[10].value = 1

\* C10: for a text or textarea question getQuestionAnalytics returns the values
\* of exactly the answers to that question, one entry per answer, in the order
\* in which they stand in the answers list.
C10_TextAnswersInOrder ==
    (analytics.called /\ analytics.question.type \in {"text", "textarea"}) =>
        LET mine == {i \in DOMAIN responseData.answers :
                        responseData.answers[i].questionId = analytics.question.id}
        IN /\ Len(analytics.result) = Cardinality(mine)
           /\ \A i \in mine :
                 analytics.result[Cardinality({j \in mine : j <= i})]
                    = responseData.answers[i].value

\* C10 witness: a textarea question rendered on a list that has an answer to
\* another question between two different answers to this one.
C10_Witness ==
    /\ analytics.called
    /\ analytics.question.type = "textarea"
    /\ Len(responseData.answers) >= 3
    /\ responseData.answers[1] = [questionId |-> "q1", value |-> "B"]
    /\ responseData.answers[2].questionId = "q2"
    /\ responseData.answers[3] = [questionId |-> "q1", value |-> "A"]
    /\ SubSeq(analytics.result, 1, 2) = <<"B", "A">>


\* C11: GET /api/stats gives the caller the number of surveys the caller
\* created, the number of those that are active, and the number of Responses
\* to surveys the caller created; other users' rows change none of the three.
C11_StatsCountOwnRows ==
    res.route = "GET /api/stats" =>
        LET own == {s \in surveys : s.createdBy = res.userId} IN
        /\ res.response.stats.totalSurveys = Cardinality(own)
        /\ res.response.stats.activeSurveys
              = Cardinality({s \in own : s.status = "active"})
        /\ res.response.stats.totalResponses
              = Cardinality({r \in responses : \E s \in own : s.id = r.surveyId})

\* C12: every Answer is to a Question of the survey its Response is for.
C12_AnswerQuestionOfSameSurvey ==
    \A a \in answers :
        \E r \in responses, q \in questions :
            r.id = a.responseId /\ q.id = a.questionId /\ q.surveyId = r.surveyId

\* C13: a survey created by POST /api/surveys has createdBy = the caller, and
\* an id and a shareToken that gen_random_uuid() produced and no stored survey
\* had; an id, createdBy or shareToken in the body is in no stored survey.
C13_CreationIdentityForced ==
    [][(res'.route = "POST /api/surveys" /\ surveys' # surveys) =>
          \E s \in surveys' :
             /\ s \notin surveys
             /\ surveys' = surveys \cup {s}
             /\ s.createdBy = res'.userId
             /\ s.id \in SurveyIds \ {t.id : t \in surveys}
             /\ s.shareToken \in Tokens \ {t.shareToken : t \in surveys}
             /\ Given(res'.identity, "id") => s.id # res'.identity.id
             /\ Given(res'.identity, "shareToken")
                   => s.shareToken # res'.identity.shareToken]_vars

\* C13 witness: POST /api/surveys has answered 200 to a body that named an id,
\* a shareToken and another user as createdBy.
C13_Witness ==
    /\ res.route = "POST /api/surveys"
    /\ res.response.code = 200
    /\ Given(res.identity, "id")
    /\ Given(res.identity, "shareToken")
    /\ Given(res.identity, "createdBy")
    /\ res.identity.createdBy # res.userId
    /\ res.response.survey \in surveys

\* C14: no step changes the id, createdBy or shareToken of a stored survey,
\* and a PUT /api/surveys/:id, whatever its body, leaves the ids, owners and
\* share tokens of all surveys as they were.
C14_IdentityImmutable ==
    [][/\ \A s \in surveys, t \in surveys' :
             t.id = s.id => t.createdBy = s.createdBy /\ t.shareToken = s.shareToken
       /\ res'.route = "PUT /api/surveys/:id" =>
             {<<t.id, t.createdBy, t.shareToken>> : t \in surveys'}
                = {<<s.id, s.createdBy, s.shareToken>> : s \in surveys}]_vars

\* C14 witness: the owner's PUT with a body that names an id, a createdBy and a
\* shareToken has been answered 200.
C14_Witness ==
    /\ res.route = "PUT /api/surveys/:id"
    /\ res.response.code = 200
    /\ Given(res.identity, "id")
    /\ Given(res.identity, "shareToken")
    /\ Given(res.identity, "createdBy")
    /\ res.response.survey.status = "active"

\* C15: every survey is stored with status draft by the step that creates it.
C15_CreatedAsDraft ==
    [][\A s \in surveys' :
          s.id \notin {t.id : t \in surveys} => s.status = "draft"]_vars

\* C16: a PUT or DELETE /api/surveys/:id request, whatever survey it names,
\* leaves every survey the caller does not own, with its Questions, Responses
\* and Answers, as it was.
C16_OnlyOwnerChanges ==
    [][res'.route \in {"PUT /api/surveys/:id", "DELETE /api/surveys/:id"} =>
          \A s \in surveys :
             s.createdBy # res'.userId =>
                /\ s \in surveys'
                /\ {q \in questions' : q.surveyId = s.id}
                      = {q \in questions : q.surveyId = s.id}
                /\ {r \in responses' : r.surveyId = s.id}
                      = {r \in responses : r.surveyId = s.id}
                /\ \A r \in responses :
                      r.surveyId = s.id =>
                         {a \in answers' : a.responseId = r.id}
                            = {a \in answers : a.responseId = r.id}]_vars

\* C16 witness: a DELETE by a caller who does not own the survey has been
\* answered while the survey, with a question and a response, is in the store.
C16_Witness ==
    /\ res.route = "DELETE /api/surveys/:id"
    /\ \E s \in surveys :
          /\ s.id = res.id
          /\ s.createdBy # res.userId
          /\ \E q \in questions : q.surveyId = s.id
          /\ \E r \in responses : r.surveyId = s.id

\* A PUT or DELETE /api/surveys/:id request that names a survey the caller does
\* not own changes no table.
C16_NotOwnedUntouched ==
    [][(/\ res'.route \in {"PUT /api/surveys/:id", "DELETE /api/surveys/:id"}
        /\ \E s \in surveys : s.id = res'.id /\ s.createdBy # res'.userId)
          => UNCHANGED store]_vars

\* Row t is row s after a merge of updates: the fields updates names have its
\* values and the others, those in except aside, have the values of s.
MergedRow(s, t, updates, except) ==
    /\ DOMAIN t = DOMAIN s
    /\ \A f \in DOMAIN s \cap DOMAIN updates : t[f] = updates[f]
    /\ \A f \in DOMAIN s \ (DOMAIN updates \cup except) : t[f] = s[f]

\* Table T becomes table U by a merge of updates into the row with this id and
\* nothing else: the other rows are in U as they were and no row is added or
\* lost.
MergedTable(T, U, id, updates, except) ==
    /\ Cardinality(U) = Cardinality(T)
    /\ \A s \in T : s.id # id => s \in U
    /\ \A s \in T : s.id = id => \E t \in U : MergedRow(s, t, updates, except)

\* The row of U that a merge into the row of T with this id produced.
StampedAt(T, U, id, date) ==
    \A s \in T : s.id = id =>
        \E t \in U \ {r \in T : r.id # id} :
            "updatedAt" \in DOMAIN t /\ t.updatedAt = date

\* C17 as stated: updateSurvey and updateQuestion merge the update into the
\* row (named fields take the supplied values, the others keep theirs, no
\* other row changes) and set the updated row's updatedAt to the time of the
\* update. (A step that leaves a table as it was is no update of that table
\* or one that changes nothing at all.)
C17_UpdatesMergeAndStamp ==
    [][/\ surveys' # surveys =>
              \A id \in SurveyIds, updates \in SurveyUpdates :
                  StorageUpdateSurvey(id, updates) =>
                      /\ MergedTable(surveys, surveys', id, updates, {"updatedAt"})
                      /\ StampedAt(surveys, surveys', id, now)
       /\ questions' # questions =>
              \A id \in QuestionIds, updates \in QuestionPatches :
                  StorageUpdateQuestion(id, updates) =>
                      /\ MergedTable(questions, questions', id, updates,
                                     {"updatedAt"})
                      /\ StampedAt(questions, questions', id, now)]_vars

\* C17 as the code has it: both operations merge the update into the row and
\* change no other row; updateSurvey sets the row's updatedAt to the time of
\* the update, while a question has no updatedAt and updateQuestion changes
\* nothing but the fields the update names.
C17_UpdatesMerge ==
    [][/\ surveys' # surveys =>
              \A id \in SurveyIds, updates \in SurveyUpdates :
                  StorageUpdateSurvey(id, updates) =>
                      /\ MergedTable(surveys, surveys', id, updates, {"updatedAt"})
                      /\ StampedAt(surveys, surveys', id, now)
                      /\ UNCHANGED <<questions, responses, answers>>
       /\ questions' # questions =>
              \A id \in QuestionIds, updates \in QuestionPatches :
                  StorageUpdateQuestion(id, updates) =>
                      /\ MergedTable(questions, questions', id, updates, {})
                      /\ \A q \in questions' : "updatedAt" \notin DOMAIN q
                      /\ UNCHANGED <<surveys, responses, answers>>]_vars

\* The first survey created was updated after the second was created, at a
\* later time than its creation, and a question was moved to an order no
\* creation through the route gives.
C17_Witness ==
    /\ \E s, t \in surveys :
          /\ s.id = SurveyIdPool[1]
          /\ t.id = SurveyIdPool[2]
          /\ s.updatedAt > t.updatedAt
    /\ \E q \in questions : q.order = MaxQuestions

\* The question lists the owner's fetch of survey s may return.
FetchedQuestions(S, Q, s) ==
    {r.questions : r \in GetSurveyRoute(S, Q, s.createdBy, s.id)}

\* C18: when POST /api/surveys answers 200 for a body, the owner's fetch of the
\* new survey returns one question per element of the body's questions array,
\* in the array's order, each with the element's text, type, required and
\* options; and the fetch of a survey returns the same list after every later
\* step that keeps the survey.
C18_QuestionsRoundTrip ==
    [][/\ (res'.route = "POST /api/surveys" /\ res'.response.code = 200) =>
             \A body \in SurveyBodies :
                PostSurvey(res'.userId, body) =>
                   LET fetched == FetchedQuestions(surveys', questions',
                                                   res'.response.survey)
                   IN /\ fetched # {}
                      /\ \A qs \in fetched :
                            /\ Len(qs) = Len(body.questions)
                            /\ \A i \in DOMAIN qs :
                                  /\ qs[i].text = body.questions[i].text
                                  /\ qs[i].type = body.questions[i].type
                                  /\ qs[i].required = body.questions[i].required
                                  /\ qs[i].options = body.questions[i].options
       /\ \A s \in surveys :
             (\E t \in surveys' : t.id = s.id) =>
                FetchedQuestions(surveys', questions', s)
                   = FetchedQuestions(surveys, questions, s)]_vars

\* C18 witness: the owner's fetch has returned the two questions of a survey
\* created with a multiple-choice question followed by a text question.
C18_Witness ==
    /\ res.route = "GET /api/surveys/:id"
    /\ res.response.code = 200
    /\ Len(res.response.questions) = 2
    /\ res.response.questions[1].type = "multiple-choice"
    /\ res.response.questions[1].options = <<"A", "B">>
    /\ res.response.questions[2].type = "text"
    /\ res.response.questions[2].required

\* The cell of a CSV line in column c; a line that ends before the column has
\* an empty cell there.
Cell(line, c) == IF c \in DOMAIN line THEN line[c] ELSE ""

\* The values a response gave in answer to a question.
AnswersTo(data, response, question) ==
    {a.value : a \in {b \in Range(data.answers) :
                         /\ b.responseId = response.id
                         /\ b.questionId = question.id}}

\* C19: the CSV the export produces has one data line per response and a
\* column headed by the text of each question of the survey, and in every data
\* line the cell under a question's text is that response's answer to the
\* question, or empty when the response gave none.
C19_ExportRowPerResponse ==
    (download.called /\ download.csv # Null) =>
        LET header == Head(download.csv)
            lines == Tail(download.csv)
        IN /\ Len(lines) = Len(responseData.responses)
           /\ \A q \in Range(pageSurvey.questions) :
                  \E c \in DOMAIN header : header[c] = q.text
           /\ \A i \in DOMAIN lines, c \in DOMAIN header,
                    q \in Range(pageSurvey.questions) :
                  header[c] = q.text =>
                      LET given == AnswersTo(responseData,
                                             responseData.responses[i], q)
                      IN IF given = {} THEN Cell(lines[i], c) = ""
                         ELSE Cell(lines[i], c) \in given

\* C20: no Response has two Answers to the same Question.
C20_OneAnswerPerQuestion ==
    \A a, b \in answers :
        (a.responseId = b.responseId /\ a.questionId = b.questionId) => a = b

\* C22: the avgCompletionRate of every GET /api/stats response is 78.5,
\* whoever calls and whatever the store holds.
C22_CompletionRateConstant ==
    res.route = "GET /api/stats" => res.response.stats.avgCompletionRate = "78.5"

\* C22 witness: the stats are given to a user who has a survey with a question
\* and a response that left the question unanswered.
C22_Witness ==
    /\ res.route = "GET /api/stats"
    /\ \E s \in surveys, q \in questions, r \in responses :
          /\ s.createdBy = res.userId
          /\ q.surveyId = s.id
          /\ r.surveyId = s.id
          /\ ~\E a \in answers : a.responseId = r.id

\* C24: a POST /api/surveys that is not answered 200 leaves no row of its own:
\* the surveys and the questions are as they were before the request.
C24_CreationAllOrNothing ==
    [][(res'.route = "POST /api/surveys" /\ res'.response.code # 200)
          => UNCHANGED <<surveys, questions>>]_vars

\* C30: a PUT /api/surveys/:id request changes no question, whatever its body
\* carries, and every step leaves the questions of each survey that stays in
\* the store as they were.
C30_PutKeepsQuestions ==
    [][/\ res'.route = "PUT /api/surveys/:id" => questions' = questions
       /\ \A s \in surveys :
             (\E t \in surveys' : t.id = s.id) =>
                {q \in questions' : q.surveyId = s.id}
                   = {q \in questions : q.surveyId = s.id}]_vars

\* C30 witness: the owner's PUT carrying a questions array has been answered
\* 200 for a survey that has a question.
C30_Witness ==
    /\ res.route = "PUT /api/surveys/:id"
    /\ res.questions
    /\ res.response.code = 200
    /\ \E q \in questions : q.surveyId = res.id

\* C27: the questions in the response of the owner fetch and of the public
\* fetch are the stored questions of the survey, each once, in ascending
\* order of their order column.
C27_FetchSortedByOrder ==
    (/\ res.route \in {"GET /api/surveys/:id", "GET /api/public/surveys/:shareToken"}
     /\ res.response.code = 200) =>
        LET qs == res.response.questions
            stored == {q \in questions : q.surveyId = res.response.survey.id}
        IN /\ Range(qs) = stored
           /\ Len(qs) = Cardinality(stored)
           /\ \A i, j \in DOMAIN qs : i < j => qs[i].order <= qs[j].order

\* C27 witness: a public fetch has returned two questions, the one inserted
\* second before the one inserted first.
C27_Witness ==
    /\ res.route = "GET /api/public/surveys/:shareToken"
    /\ res.response.code = 200
    /\ Len(res.response.questions) = 2
    /\ res.response.questions[1].id = QuestionIdPool[2]
    /\ res.response.questions[1].order < res.response.questions[2].order

\* The respondentId the route stores for a body: req.body.respondentId || null.
StoredRespondent(body) ==
    IF body.respondentId \in {Absent, ""} THEN Null ELSE body.respondentId

\* C21: a public submission to an active survey that already has a Response
\* with the same respondentId stores one more Response of that respondent,
\* and is answered 200 when it carries no answers, whether the survey's
\* multipleResponses is true or false.
C21_ResubmissionAccepted ==
    [][res'.route = "POST /api/public/surveys/:shareToken/responses" =>
          \A body \in ResponseBodies, s \in surveys :
             (/\ PostPublicResponse(res'.shareToken, body)
              /\ s.shareToken = res'.shareToken
              /\ s.status = "active"
              /\ s.multipleResponses \in BOOLEAN
              /\ insertResponseSchema([surveyId |-> s.id,
                                       respondentId |-> StoredRespondent(body)])
              /\ \E r \in responses : /\ r.surveyId = s.id
                                      /\ r.respondentId = StoredRespondent(body))
             => /\ Cardinality(responses') = Cardinality(responses) + 1
                /\ \E r \in responses' \ responses :
                      /\ r.surveyId = s.id
                      /\ r.respondentId = StoredRespondent(body)
                /\ body.answers = <<>> => res'.response.code = 200]_vars

\* C21 witness: a survey with multipleResponses false has two Responses of the
\* respondent anon1, the second just accepted.
C21_Witness ==
    /\ res.route = "POST /api/public/surveys/:shareToken/responses"
    /\ res.response.code = 200
    /\ \E s \in surveys, r1, r2 \in responses :
          /\ ~s.multipleResponses
          /\ s.shareToken = res.shareToken
          /\ r1.id # r2.id
          /\ r1.surveyId = s.id /\ r2.surveyId = s.id
          /\ r1.respondentId = "anon1" /\ r2.respondentId = "anon1"

\* C26: every step leaves each Response row as it was, or removes it together
\* with its survey.
C26_ResponseImmutable ==
    [][\A r \in responses :
          \/ r \in responses'
          \/ /\ \A t \in responses' : t.id # r.id
             /\ \E s \in surveys : s.id = r.surveyId
             /\ \A s \in surveys' : s.id # r.surveyId]_vars

\* C26 witness: the owner's PUT on a survey has been answered 200 at a time
\* later than the creation of a Response of the survey, which is in the store.
C26_Witness ==
    /\ res.route = "PUT /api/surveys/:id"
    /\ res.response.code = 200
    /\ \E r \in responses : r.surveyId = res.id /\ r.createdAt < now

\* C25: no two surveys have the same shareToken, so that a lookup by token
\* finds at most one survey; and a survey that gets a shareToken in a step, by
\* its creation or by an update, gets one that no survey had before.
C25_TokenUniqueNeverReused ==
    /\ [](/\ \A s, t \in surveys : s.shareToken = t.shareToken => s = t
          /\ \A token \in Tokens \cup {f.shareToken : f \in ForgedKeys} :
                Cardinality(getSurveyByShareToken(surveys, token)) <= 1
          /\ {s.shareToken : s \in surveys} \subseteq issued.tokens)
    /\ [][\A s \in surveys' :
             (~\E t \in surveys : t.id = s.id /\ t.shareToken = s.shareToken)
                => s.shareToken \notin issued.tokens]_vars

\* C25 witness: a survey has just been created after the survey that had the
\* first token was deleted, and has the second.
C25_Witness ==
    /\ res.route = "POST /api/surveys"
    /\ res.response.code = 200
    /\ TokenPool[1] \in issued.tokens
    /\ \A s \in surveys : s.shareToken # TokenPool[1]
    /\ \E s \in surveys : s.shareToken = TokenPool[2]

\* The answers stored for the submission in slot h.
AnswersOf(h) == {a \in answers : a.responseId = handlers[h].responseId}

\* C23: however the steps of two submissions to one active survey interleave,
\* each gets its own Response row of that survey, every insert that has run
\* left one Answer with the question and value of the request under the
\* request's own Response and none under the other, no insert fails, and the
\* answer is 200 once every insert has run.
C23_ConcurrentSubmissionsKeepApart ==
    \A h \in Slots :
        LET hd == handlers[h] IN
        /\ hd.at = "done" => hd.response.code = 404
        /\ hd.at = "answers" =>
              /\ \E r \in responses : r.id = hd.responseId /\ r.surveyId = hd.surveyId
              /\ ~hd.threw /\ ~hd.failed
              /\ Cardinality(AnswersOf(h)) = Len(hd.body.answers) - Cardinality(hd.pending)
              /\ \A a \in AnswersOf(h) :
                    \E i \in DOMAIN hd.body.answers :
                        /\ a.questionId = hd.body.answers[i].questionId
                        /\ a.value = hd.body.answers[i].value
              /\ hd.response # Unanswered =>
                    /\ hd.response.code = 200
                    /\ Cardinality(AnswersOf(h)) = Len(hd.body.answers)
              /\ \A g \in Slots \ {h} :
                    handlers[g].at = "answers" => handlers[g].responseId # hd.responseId

\* Two submissions of one answer each have been answered 200, the answer of
\* the first having been inserted after that of the second.
C23_Witness ==
    /\ \A h \in Slots :
          /\ handlers[h].at = "answers"
          /\ handlers[h].response # Unanswered
          /\ handlers[h].response.code = 200
          /\ Len(handlers[h].body.answers) = 1
    /\ handlers[1].surveyId = handlers[2].surveyId
    /\ Cardinality(responses) = 2
    /\ \E a \in AnswersOf(1) : a.id = AnswerIdPool[2]
    /\ \E a \in AnswersOf(2) : a.id = AnswerIdPool[1]

\* C28: a step that inserts a Response or an Answer finds the survey of the
\* row active: nothing is stored for a survey its owner has closed.
C28_InsertsOnlyWhileActive ==
    [][/\ \A r \in responses' \ responses :
             \A s \in surveys : s.id = r.surveyId => s.status = "active"
       /\ \A a \in answers' \ answers :
             \A r \in responses : r.id = a.responseId =>
                 \A s \in surveys : s.id = r.surveyId => s.status = "active"]_vars

\* Every required question of the page's survey has a non-empty entry in the
\* responses object.
RequiredAllEntered ==
    /\ form.survey # NoData
    /\ \A q \in Range(form.survey.questions) :
          q.required => \E e \in Range(form.responses) : e.key = q.id /\ e.value # ""

\* C29: the public page sends a submission only when every required question
\* has a non-empty entry in responses; a submit with one missing sends nothing
\* and leaves isSubmitted false; the request sent carries one answer for each
\* questionId entered, with the value entered, and no other answer.
C29_SubmitOnlyWhenRequiredEntered ==
    [][/\ form'.sent # form.sent =>
             /\ RequiredAllEntered
             /\ \E body \in {form'.sent[Len(form'.sent)]} :
                   /\ form'.sent = Append(form.sent, body)
                   /\ Len(body.answers) = Len(form.responses)
                   /\ \A e \in Range(form.responses) :
                         Cardinality({i \in DOMAIN body.answers :
                                         body.answers[i].questionId = e.key}) = 1
                   /\ \A i \in DOMAIN body.answers :
                         \E e \in Range(form.responses) :
                             /\ e.key = body.answers[i].questionId
                             /\ e.value = body.answers[i].value
       /\ handleSubmit /\ ~RequiredAllEntered =>
             /\ form'.sent = form.sent
             /\ ~form'.isPending
             /\ ~form'.isSubmitted
             /\ form'.toast = "Required Fields Missing"]_vars

\* A submission of two answers, one of them a cleared optional input, has
\* been sent and failed; the next submit, with the required input cleared, was
\* stopped.
C29_Witness ==
    /\ Len(form.sent) = 1
    /\ Len(form.sent[1].answers) = 2
    /\ \E i \in DOMAIN form.sent[1].answers : form.sent[1].answers[i].value = ""
    /\ \E q \in Range(form.survey.questions) : q.required
    /\ ~RequiredAllEntered
    /\ form.toast = "Required Fields Missing"
    /\ ~form.isSubmitted

====
